---- MODULE Spec2Model ----
(***************************************************************************)
(* Model of src/bids_with_ses.py: the heudiconv heuristic of rtsz-scripts. *)
(*                                                                         *)
(*   create_key(template, outtype, annotation_classes)   lines 14-17       *)
(*   infotodict(seqinfo)                                  lines 20-100      *)
(*                                                                         *)
(* Python values whose type matters to the code (the template argument of  *)
(* create_key, the motion-corrected flag of a row) are records             *)
(* [type, b, s]; protocol names are strings and "x in y" on them is        *)
(* computed as substring search.                                           *)
(***************************************************************************)
EXTENDS Integers, Sequences, FiniteSets, TLC

VARIABLES seqinfo, info, idx, pc, key_call, key_out

vars == <<seqinfo, info, idx, pc, key_call, key_out>>

(***************************************************************************)
(* Bounds of the model.                                                    *)
(***************************************************************************)
\* longest seqinfo handed to infotodict
MaxLen == 2
\* series numbers are drawn from 1..MaxSeries
MaxSeries == 2
\* longest seqinfo of the interleaved invocations
MaxConcLen == 2
\* templates handed to create_key are built from at most MaxPieces pieces
MaxPieces == 2

(***************************************************************************)
(* Python values.                                                          *)
(***************************************************************************)
PyBool(b) == [type |-> "bool", b |-> b, s |-> ""]

PyStr(s) == [type |-> "str", b |-> FALSE, s |-> s]

PyNone == [type |-> "NoneType", b |-> FALSE, s |-> ""]

\* Python's truth value of an object: bool(v)
truth(v) ==
    CASE v.type = "bool" -> v.b
      [] v.type = "str" -> Len(v.s) > 0
      [] OTHER -> FALSE

\* isinstance(v, str)
isinstance_str(v) == v.type = "str"

\* sub in s, for two Python strings: s has a slice equal to sub
In(sub, s) ==
    \E i \in 1..(Len(s) - Len(sub) + 1) : SubSeq(s, i, i + Len(sub) - 1) = sub

(***************************************************************************)
(* create_key                                                              *)
(***************************************************************************)
\* the default of the parameter outtype: ('nii.gz',)
DefaultOuttype == <<"nii.gz">>

\* the default of the parameter annotation_classes: None
DefaultAnnotationClasses == PyNone

\* create_key that rejects only a falsy template (None, ''), whatever its type
create_key_raises_falsy_only(template) == ~truth(template)

\* line 15: the condition under which create_key raises ValueError
create_key_raises(template) == (~isinstance_str(template)) \/ (~truth(template))

\* line 17: the returned tuple
create_key(template, outtype, annotation_classes) ==
    <<template, outtype, annotation_classes>>

(***************************************************************************)
(* infotodict: the keys (lines 48-57)                                      *)
(***************************************************************************)
T1Template == PyStr("{session}/anat/sub-{subject}_{session}_T1w")

T2Template == PyStr("{session}/anat/sub-{subject}_{session}_T2w")

RestTemplate ==
    PyStr("{session}/func/sub-{subject}_{session}_task-rest_acq-{direction}_bold")

TaskTemplate ==
    PyStr("{session}/func/sub-{subject}_{session}_task-{task_name}_run-{item:02d}_bold")

SpinEchoTemplate ==
    PyStr("{session}/fmap/sub-{subject}_{session}_dir-{direction}_epi")

t1 == create_key(T1Template, DefaultOuttype, DefaultAnnotationClasses)

t2 == create_key(T2Template, DefaultOuttype, DefaultAnnotationClasses)

rest == create_key(RestTemplate, DefaultOuttype, DefaultAnnotationClasses)

task == create_key(TaskTemplate, DefaultOuttype, DefaultAnnotationClasses)

spin_echo == create_key(SpinEchoTemplate, DefaultOuttype, DefaultAnnotationClasses)

\* one of the five create_key calls of infotodict raises
KeysRaise ==
    \E tpl \in {T1Template, T2Template, RestTemplate, TaskTemplate, SpinEchoTemplate} :
        create_key_raises(tpl)

\* line 59: info = {t1: [], t2: [], rest: [], task: [], spin_echo: []}
NewInfo == [k \in {t1, t2, rest, task, spin_echo} |-> <<>>]

(***************************************************************************)
(* infotodict: the body of the loop over seqinfo (lines 62-98)             *)
(***************************************************************************)
\* info[key].insert(0, value)
DictPrepend(inf, key, value) == [inf EXCEPT ![key] = <<value>> \o @]

\* info[key] += [value, value]
DictAppendTwice(inf, key, value) == [inf EXCEPT ![key] = @ \o <<value, value>>]

\* append unless the value is already in the bucket
DictAppendUnique(inf, key, value) ==
    IF \E j \in 1..Len(inf[key]) : inf[key][j] = value
    THEN inf
    ELSE [inf EXCEPT ![key] = Append(@, value)]

\* info[key].append(value)
DictAppend(inf, key, value) == [inf EXCEPT ![key] = Append(@, value)]

LoopBody(inf, s) ==
    LET series_number == s.series_number
        protocol_name == s.protocol_name
        motion_corrected == s.motion_corrected
        sl == s.sl
        nt == s.nt
    IN  IF (sl = 176 \/ sl = 704) /\ nt = 1 /\ In("MEMPRAGE", protocol_name)
          THEN DictAppend(inf, t1, series_number)
        ELSE IF sl = 176 /\ nt = 1 /\ In("T2_SPACE", protocol_name)
          THEN DictAppend(inf, t2, series_number)
        ELSE IF sl = 65 /\ nt = 300
          THEN IF In("rffMRI_AP", protocol_name)
                 THEN DictAppend(inf, rest, [item |-> series_number, direction |-> "AP"])
               ELSE IF In("rsfMRI_PA", protocol_name)
                 THEN DictAppend(inf, rest, [item |-> series_number, direction |-> "PA"])
               ELSE inf
        ELSE IF sl = 32 /\ nt = 136 /\ truth(motion_corrected)
          THEN IF In("fMRI_listen", protocol_name)
                 THEN DictAppend(inf, task, [item |-> series_number, task_name |-> "listen"])
               ELSE IF In("fMRI_selfref", protocol_name)
                 THEN DictAppend(inf, task, [item |-> series_number, task_name |-> "selfref"])
               ELSE inf
        ELSE IF sl = 260 /\ nt = 1
          THEN IF In("Spin_Echo_EPI_AP", protocol_name)
                 THEN DictAppend(inf, spin_echo, [item |-> series_number, direction |-> "AP"])
               ELSE IF In("Spin_Echo_EPI_PA", protocol_name)
                 THEN DictAppend(inf, spin_echo, [item |-> series_number, direction |-> "PA"])
               ELSE inf
        ELSE inf

\* the loop of lines 62-98 run over rows, starting from the mapping inf
RECURSIVE Loop(_, _)
Loop(inf, rows) ==
    IF rows = <<>> THEN inf ELSE Loop(LoopBody(inf, Head(rows)), Tail(rows))

\* infotodict as a function of its argument (lines 59-100)
infotodict(rows) == Loop(NewInfo, rows)

(***************************************************************************)
(* Inputs: rows of the DICOM information file.  A row is modelled by the   *)
(* fields infotodict reads: s[2], s[12], s[13], s[8], s[9] (lines 63-66).  *)
(* x and y (s[6], s[7]) and last_run (line 60) are assigned and never      *)
(* read, so they are not part of the state.                                *)
(***************************************************************************)
Row(series_number, protocol_name, motion_corrected, sl, nt) ==
    [series_number |-> series_number, protocol_name |-> protocol_name,
     motion_corrected |-> motion_corrected, sl |-> sl, nt |-> nt]

\* the acquisitions of a session: <<protocol name, motion-corrected flag, sl, nt>>
Acquisitions ==
    { <<"Localizer", PyBool(FALSE), 999, 1>>,
      <<"T1_MEMPRAGE", PyBool(FALSE), 176, 1>>,
      <<"T1_MEMPRAGE RMS", PyBool(FALSE), 704, 1>>,
      <<"T2_SPACE", PyBool(FALSE), 176, 1>>,
      <<"MEMPRAGE_T2_SPACE", PyBool(FALSE), 176, 1>>,
      <<"rffMRI_AP", PyBool(FALSE), 65, 300>>,
      <<"rsfMRI_PA", PyBool(FALSE), 65, 300>>,
      <<"fMRI_listen", PyBool(TRUE), 32, 136>>,
      <<"fMRI_listen", PyBool(FALSE), 32, 136>>,
      <<"fMRI_listen", PyStr("False"), 32, 136>>,
      <<"fMRI_selfref", PyStr("True"), 32, 136>>,
      <<"Spin_Echo_EPI_AP", PyBool(FALSE), 260, 1>>,
      <<"Spin_Echo_EPI_PA", PyBool(FALSE), 260, 1>>,
      <<"spin_echo_epi_ap", PyBool(FALSE), 260, 1>> }

Rows ==
    { Row(n, a[1], a[2], a[3], a[4]) : n \in 1..MaxSeries, a \in Acquisitions }

\* the sequences over S of length at most n
SeqsUpTo(S, n) == UNION { [1..k -> S] : k \in 0..n }

Inputs == SeqsUpTo(Rows, MaxLen)

\* the rows of the interleaved invocations
ConcRows ==
    { Row(1, "T1_MEMPRAGE", PyBool(FALSE), 176, 1),
      Row(2, "rffMRI_AP", PyBool(FALSE), 65, 300),
      Row(3, "fMRI_selfref", PyBool(TRUE), 32, 136) }

ConcInputs == SeqsUpTo(ConcRows, MaxConcLen)

(***************************************************************************)
(* Invocations of infotodict.  Each invocation has its own argument        *)
(* seqinfo, its own local mapping info and its own position in the loop.   *)
(***************************************************************************)
Invocations == {"first", "second"}

\* the invocation of the sequential specification
MainInvocations == {"first"}

\* no call of create_key in progress
NoKeyCall ==
    [pc |-> "idle", template |-> PyNone, outtype_given |-> FALSE, outtype |-> <<>>,
     classes_given |-> FALSE, annotation_classes |-> PyNone]

NoKeyOut == [status |-> "none", key |-> <<>>]

Init ==
    /\ seqinfo = [i \in Invocations |-> <<>>]
    /\ info = [i \in Invocations |-> <<>>]
    /\ idx = [i \in Invocations |-> 0]
    /\ pc = [i \in Invocations |-> "idle"]
    /\ key_call = NoKeyCall
    /\ key_out = NoKeyOut

\* a call that goes on with the mapping of the invocation before it, as with
\* a mapping held at module level or in a default argument
CallKeepingInfo(i, rows) ==
    /\ pc[i] \in {"idle", "done"}
    /\ ~KeysRaise
    /\ seqinfo' = [seqinfo EXCEPT ![i] = rows]
    /\ info' = [info EXCEPT ![i] = IF pc[i] = "idle" THEN NewInfo ELSE @]
    /\ idx' = [idx EXCEPT ![i] = 1]
    /\ pc' = [pc EXCEPT ![i] = "loop"]
    /\ UNCHANGED <<key_call, key_out>>

\* lines 48-60: the call builds the keys and a new mapping and enters the loop
Call(i, rows) ==
    /\ pc[i] \in {"idle", "done"}
    /\ ~KeysRaise
    /\ seqinfo' = [seqinfo EXCEPT ![i] = rows]
    /\ info' = [info EXCEPT ![i] = NewInfo]
    /\ idx' = [idx EXCEPT ![i] = 1]
    /\ pc' = [pc EXCEPT ![i] = "loop"]
    /\ UNCHANGED <<key_call, key_out>>

\* lines 62-98: one iteration of the loop, on the row at the loop's position
Iterate(i) ==
    /\ pc[i] = "loop"
    /\ idx[i] <= Len(seqinfo[i])
    /\ info' = [info EXCEPT ![i] = LoopBody(@, seqinfo[i][idx[i]])]
    /\ idx' = [idx EXCEPT ![i] = @ + 1]
    /\ UNCHANGED <<seqinfo, pc, key_call, key_out>>

\* line 100: the loop is exhausted and info is returned
Return(i) ==
    /\ pc[i] = "loop"
    /\ idx[i] > Len(seqinfo[i])
    /\ pc' = [pc EXCEPT ![i] = "done"]
    /\ UNCHANGED <<seqinfo, info, idx, key_call, key_out>>

\* one caller, one invocation
CallOnce(i) == pc[i] = "idle" /\ \E rows \in Inputs : Call(i, rows)

\* a caller that invokes infotodict again and again
CallAgain(i) == \E rows \in ConcInputs : Call(i, rows)

Next == \E i \in MainInvocations : CallOnce(i) \/ Iterate(i) \/ Return(i)

Spec == Init /\ [][Next]_vars

NextConc == \E i \in Invocations : CallAgain(i) \/ Iterate(i) \/ Return(i)

SpecConc == Init /\ [][NextConc]_vars

(***************************************************************************)
(* Calls of create_key by itself (lines 14-17).  The caller passes a       *)
(* template and may leave out outtype and annotation_classes, which then   *)
(* take their defaults.                                                    *)
(***************************************************************************)
Pieces == {"{session}", "/anat/", "sub-{subject}", "_T1w"}

\* the strings made of at most n pieces
RECURSIVE StringsUpTo(_)
StringsUpTo(n) ==
    IF n = 0 THEN {""}
    ELSE LET shorter == StringsUpTo(n - 1)
         IN  shorter \cup { p \o t : p \in Pieces, t \in shorter }

\* the template arguments: strings, the empty string among them, and non-strings
TemplateArgs ==
    { PyStr(t) : t \in StringsUpTo(MaxPieces) }
        \cup {T1Template, T2Template, RestTemplate, TaskTemplate, SpinEchoTemplate}
        \cup {PyNone, PyBool(TRUE), PyBool(FALSE)}

\* the outtype arguments
OuttypeArgs == {<<"nii">>, <<"nii.gz", "dicom">>}

\* the annotation_classes arguments
AnnotationArgs == {PyNone, PyStr("label")}

\* the call binds the parameters; a parameter left out takes its default
CreateKeyCall(template, outtype_given, outtype, classes_given, classes) ==
    /\ key_call.pc # "called"
    /\ key_call' =
          [pc |-> "called", template |-> template,
           outtype_given |-> outtype_given,
           outtype |-> IF outtype_given THEN outtype ELSE DefaultOuttype,
           classes_given |-> classes_given,
           annotation_classes |->
               IF classes_given THEN classes ELSE DefaultAnnotationClasses]
    /\ key_out' = NoKeyOut
    /\ UNCHANGED <<seqinfo, info, idx, pc>>

\* lines 15-16: raise ValueError
CreateKeyRaise ==
    /\ key_call.pc = "called"
    /\ create_key_raises(key_call.template)
    /\ key_call' = [key_call EXCEPT !.pc = "raised"]
    /\ key_out' = [status |-> "ValueError", key |-> <<>>]
    /\ UNCHANGED <<seqinfo, info, idx, pc>>

\* line 17: return the key
CreateKeyReturn ==
    /\ key_call.pc = "called"
    /\ ~create_key_raises(key_call.template)
    /\ key_call' = [key_call EXCEPT !.pc = "returned"]
    /\ key_out' =
          [status |-> "returned",
           key |-> create_key(key_call.template, key_call.outtype,
                              key_call.annotation_classes)]
    /\ UNCHANGED <<seqinfo, info, idx, pc>>

CreateKeyAnyCall ==
    \E template \in TemplateArgs, outtype_given \in BOOLEAN, outtype \in OuttypeArgs,
       classes_given \in BOOLEAN, classes \in AnnotationArgs :
        CreateKeyCall(template, outtype_given, outtype, classes_given, classes)

NextKey == CreateKeyAnyCall \/ CreateKeyRaise \/ CreateKeyReturn

SpecKey == Init /\ [][NextKey]_vars

(***************************************************************************)
(* The rule table of the specification (section 4.2), evaluated top to     *)
(* bottom, first match wins.  The motion-corrected flag is read as the     *)
(* specification reads it (section 9): a boolean, or the string "True" or  *)
(* "False" standing for one.                                               *)
(***************************************************************************)
FlagIsTrue(v) ==
    CASE v.type = "bool" -> v.b
      [] v.type = "str" -> v.s = "True"
      [] OTHER -> FALSE

Chosen(category, extra) == [category |-> category, extra |-> extra]

TableRule(s) ==
    LET p == s.protocol_name
    IN  CASE s.sl \in {176, 704} /\ s.nt = 1 /\ In("MEMPRAGE", p) -> Chosen("T1", "")
          [] s.sl = 176 /\ s.nt = 1 /\ In("T2_SPACE", p) -> Chosen("T2", "")
          [] s.sl = 65 /\ s.nt = 300 /\ In("rffMRI_AP", p) -> Chosen("rest", "AP")
          [] s.sl = 65 /\ s.nt = 300 /\ In("rsfMRI_PA", p) -> Chosen("rest", "PA")
          [] s.sl = 32 /\ s.nt = 136 /\ FlagIsTrue(s.motion_corrected)
                /\ In("fMRI_listen", p) -> Chosen("task", "listen")
          [] s.sl = 32 /\ s.nt = 136 /\ FlagIsTrue(s.motion_corrected)
                /\ In("fMRI_selfref", p) -> Chosen("task", "selfref")
          [] s.sl = 260 /\ s.nt = 1 /\ In("Spin_Echo_EPI_AP", p) -> Chosen("fieldmap", "AP")
          [] s.sl = 260 /\ s.nt = 1 /\ In("Spin_Echo_EPI_PA", p) -> Chosen("fieldmap", "PA")
          [] OTHER -> Chosen("none", "")

\* the key of a category of the table
KeyOf(category) ==
    CASE category = "T1" -> t1
      [] category = "T2" -> t2
      [] category = "rest" -> rest
      [] category = "task" -> task
      [] category = "fieldmap" -> spin_echo

Categories == {"T1", "T2", "rest", "task", "fieldmap"}

AnatomicalKeys == {t1, t2}

DictKeys == {rest, task, spin_echo}

\* the dictionary the table records for a row of a functional or fieldmap category
TableDict(s) ==
    IF TableRule(s).category = "task"
    THEN [item |-> s.series_number, task_name |-> TableRule(s).extra]
    ELSE [item |-> s.series_number, direction |-> TableRule(s).extra]

\* the rows invocation i has processed so far
Processed(i) == SubSeq(seqinfo[i], 1, idx[i] - 1)

\* invocation i takes one iteration of its loop, on row s
IterateOn(i, s) == Iterate(i) /\ s = seqinfo[i][idx[i]]

\* what the step from mapping inf to mapping inf2 chose for a row
ChosenByStep(inf, inf2) ==
    IF inf2 = inf THEN Chosen("none", "")
    ELSE LET c == CHOOSE c \in Categories : inf2[KeyOf(c)] # inf[KeyOf(c)]
             bucket == inf2[KeyOf(c)]
             last == bucket[Len(bucket)]
         IN  CASE c \in {"T1", "T2"} -> Chosen(c, "")
               [] c = "task" -> Chosen(c, last.task_name)
               [] OTHER -> Chosen(c, last.direction)

(***************************************************************************)
(* C1 - C10                                                                *)
(***************************************************************************)
\* the bucket an anatomical category holds under the replace policy: the
\* series number of the last row of the category, alone
LastMatch(rows, category) ==
    LET m == { j \in 1..Len(rows) : TableRule(rows[j]).category = category }
    IN  IF m = {} THEN <<>>
        ELSE <<rows[CHOOSE j \in m : \A l \in m : l <= j].series_number>>

\* C1: an anatomical match (T1 or T2) replaces the bucket by a one-element
\* list, so after any processed prefix each anatomical bucket holds at most
\* one element, the series number of the last matching row; of two T1 rows
\* only the second one's series number is in the T1 bucket.
C1_AnatomicalMatchReplaces ==
    \A i \in Invocations :
        pc[i] # "idle" =>
            \A c \in {"T1", "T2"} :
                /\ Len(info[i][KeyOf(c)]) <= 1
                /\ info[i][KeyOf(c)] = LastMatch(Processed(i), c)

\* a task row but for its flag: task geometry and a task protocol name
IsTaskAcquisition(s) ==
    /\ s.sl = 32
    /\ s.nt = 136
    /\ In("fMRI_listen", s.protocol_name) \/ In("fMRI_selfref", s.protocol_name)

\* the same row with the flag as a boolean instead of the string "True" or "False"
BoolTwin(s) == [s EXCEPT !.motion_corrected = PyBool(s.motion_corrected.s = "True")]

\* C2: a task row whose motion-corrected flag is the string "False" (or
\* "True") is treated as the same row with the boolean false (or true): the
\* iteration leaves the mapping it would leave for the boolean twin, so both
\* are added to the task bucket or neither is.
C2_FlagStringAsBoolean ==
    [][\A i \in Invocations :
         Iterate(i) =>
            LET s == seqinfo[i][idx[i]]
            IN  (/\ IsTaskAcquisition(s)
                 /\ s.motion_corrected.type = "str"
                 /\ s.motion_corrected.s \in {"True", "False"})
                    => info'[i] = LoopBody(info[i], BoolTwin(s))]_vars

\* C3: at every point of the pass and in the returned mapping there are
\* exactly five keys, one per category of the registry; a category that no
\* processed row matched has an empty bucket.
C3_FiveKeysEmptyWhenUnmatched ==
    \A i \in Invocations :
        pc[i] # "idle" =>
            /\ DOMAIN info[i] = { KeyOf(c) : c \in Categories }
            /\ Cardinality(DOMAIN info[i]) = 5
            /\ \A c \in Categories :
                  (\A j \in 1..Len(Processed(i)) :
                        TableRule(Processed(i)[j]).category # c)
                      => info[i][KeyOf(c)] = <<>>

\* C5: an iteration on a row that matches no rule of the table leaves all
\* five buckets unchanged, wherever the row stands in the sequence.
C5_UnmatchedRowChangesNothing ==
    [][\A i \in Invocations :
         Iterate(i) =>
            (TableRule(seqinfo[i][idx[i]]).category = "none" => info'[i] = info[i])]_vars

\* C7: for every row, the category and the extra field the iteration chooses
\* are those of the rule table evaluated top to bottom, first match wins.
C7_StepFollowsRuleTable ==
    [][\A i \in Invocations :
         Iterate(i) =>
            ChosenByStep(info[i], info'[i]) = TableRule(seqinfo[i][idx[i]])]_vars

\* a is an initial segment of b
IsPrefix(a, b) == Len(a) <= Len(b) /\ SubSeq(b, 1, Len(a)) = a

\* a is b with some elements left out
RECURSIVE IsSubsequence(_, _)
IsSubsequence(a, b) ==
    IF a = <<>> THEN TRUE
    ELSE IF b = <<>> THEN FALSE
    ELSE IF Head(a) = Head(b) THEN IsSubsequence(Tail(a), Tail(b))
    ELSE IsSubsequence(a, Tail(b))

\* the dictionaries of the rows of a category, in the order of the rows
RECURSIVE MatchesOf(_, _)
MatchesOf(rows, category) ==
    IF rows = <<>> THEN <<>>
    ELSE LET before == MatchesOf(SubSeq(rows, 1, Len(rows) - 1), category)
             s == rows[Len(rows)]
         IN  IF TableRule(s).category = category
             THEN Append(before, TableDict(s))
             ELSE before

\* C4: an iteration on a row that matches a resting-state, task or fieldmap
\* rule appends exactly one dictionary to that category's bucket, with item
\* the row's series number and the rule's direction or task_name; no
\* iteration removes or reorders the entries of such a bucket; so a bucket
\* lists the matches of the processed rows in the order of the rows.
C4_DictMatchAppendsInOrder ==
    /\ [][\A i \in Invocations :
            Iterate(i) =>
               LET s == seqinfo[i][idx[i]]
                   c == TableRule(s).category
               IN  /\ \A k \in DictKeys : IsPrefix(info[i][k], info'[i][k])
                   /\ c \in {"rest", "task", "fieldmap"} =>
                         info'[i][KeyOf(c)] = Append(info[i][KeyOf(c)], TableDict(s))]_vars
    /\ [](\A i \in Invocations :
            pc[i] # "idle" =>
               \A c \in {"rest", "task", "fieldmap"} :
                   IsSubsequence(MatchesOf(Processed(i), c), info[i][KeyOf(c)]))

\* an AP and a PA resting-state row were processed, in that order
C4_Witness ==
    \E i \in Invocations :
        /\ pc[i] = "done"
        /\ info[i][rest] = <<[item |-> 1, direction |-> "AP"], [item |-> 2, direction |-> "PA"]>>

\* the truth of template as the claim states it: a string that is not empty
NonEmptyString(v) == v.type = "str" /\ v.s # ""

\* C6: create_key returns for every non-empty string template a key whose
\* template is the argument, with outtype ('nii.gz',) and annotation classes
\* None where the caller left them out; for an empty or non-string template
\* it raises and returns no key.
C6_CreateKey ==
    key_call.pc \in {"returned", "raised"} =>
        IF NonEmptyString(key_call.template)
        THEN /\ key_out.status = "returned"
             /\ Len(key_out.key) = 3
             /\ key_out.key[1] = key_call.template
             /\ (~key_call.outtype_given => key_out.key[2] = <<"nii.gz">>)
             /\ (key_call.outtype_given => key_out.key[2] = key_call.outtype)
             /\ (~key_call.classes_given => key_out.key[3] = PyNone)
             /\ (key_call.classes_given => key_out.key[3] = key_call.annotation_classes)
        ELSE /\ key_out.status = "ValueError"
             /\ key_out.key = <<>>

\* create_key returned the T1 key from its template alone
C6_Witness ==
    /\ key_call.pc = "returned"
    /\ ~key_call.outtype_given
    /\ ~key_call.classes_given
    /\ key_out.key =
          <<PyStr("{session}/anat/sub-{subject}_{session}_T1w"), <<"nii.gz">>, PyNone>>

\* C8: infotodict is a function of its argument with no state across
\* invocations: with invocations run one after another and interleaved,
\* each holds after every iteration, and returns, the mapping the loop
\* yields on its own rows alone, and invocations on equal arguments return
\* equal mappings.
C8_InvocationsIndependent ==
    /\ \A i \in Invocations :
          /\ pc[i] = "loop" => info[i] = infotodict(Processed(i))
          /\ pc[i] = "done" => info[i] = infotodict(seqinfo[i])
    /\ \A i, j \in Invocations :
          (pc[i] = "done" /\ pc[j] = "done" /\ seqinfo[i] = seqinfo[j])
              => info[i] = info[j]

\* one invocation has returned a mapping with entries while the other, on
\* other rows, is in the middle of its loop
C8_Witness ==
    \E i, j \in Invocations :
        /\ pc[i] = "done" /\ pc[j] = "loop"
        /\ Len(seqinfo[i]) = 2 /\ Len(seqinfo[j]) = 2
        /\ seqinfo[i] # seqinfo[j]
        /\ idx[j] = 2
        /\ info[i][t1] # <<>> /\ info[j][rest] # <<>>

\* the number of entries in the five buckets
TotalEntries(inf) ==
    Len(inf[t1]) + Len(inf[t2]) + Len(inf[rest]) + Len(inf[task]) + Len(inf[spin_echo])

\* the series numbers in the buckets, directly or as item
SeriesIn(inf) ==
    UNION ({ { inf[k][j] : j \in 1..Len(inf[k]) } : k \in AnatomicalKeys }
             \cup { { inf[k][j].item : j \in 1..Len(inf[k]) } : k \in DictKeys })

\* the keys whose bucket differs between two mappings
ChangedKeys(inf, inf2) == { k \in DOMAIN inf : inf2[k] # inf[k] }

\* C9: each row contributes at most one entry to at most one bucket: after
\* any processed prefix the buckets hold at most as many entries as rows
\* were processed, every series number in a bucket (directly or as item) is
\* that of a processed row, and an iteration changes at most one bucket,
\* by at most one entry.
C9_AtMostOneEntryPerRow ==
    /\ [](\A i \in Invocations :
            pc[i] # "idle" =>
               /\ TotalEntries(info[i]) <= Len(Processed(i))
               /\ SeriesIn(info[i]) \subseteq
                     { Processed(i)[j].series_number : j \in 1..Len(Processed(i)) })
    /\ [][\A i \in Invocations :
            Iterate(i) =>
               /\ Cardinality(ChangedKeys(info[i], info'[i])) <= 1
               /\ TotalEntries(info'[i]) <= TotalEntries(info[i]) + 1]_vars

\* two rows were processed and each put its entry into a bucket of its own
C9_Witness ==
    \E i \in Invocations :
        /\ pc[i] = "done"
        /\ Len(seqinfo[i]) = 2
        /\ TotalEntries(info[i]) = 2
        /\ info[i][t2] = <<2>>
        /\ info[i][spin_echo] = <<[item |-> 1, direction |-> "PA"]>>

\* C10: for all row sequences A and B, each of the resting-state, task and
\* fieldmap buckets of infotodict(A followed by B) is the bucket of
\* infotodict(A) followed by that of infotodict(B).
C10_DictBucketsConcatenate ==
    \A i \in Invocations :
        pc[i] = "done" =>
            \A n \in 0..Len(seqinfo[i]) :
                LET A == SubSeq(seqinfo[i], 1, n)
                    B == SubSeq(seqinfo[i], n + 1, Len(seqinfo[i]))
                IN  \A k \in DictKeys :
                        info[i][k] = infotodict(A)[k] \o infotodict(B)[k]

\* the task bucket of a returned mapping holds the entries of two task rows
C10_Witness ==
    \E i \in Invocations :
        /\ pc[i] = "done"
        /\ Len(seqinfo[i]) = 2
        /\ Len(info[i][task]) = 2
        /\ info[i][task][1].task_name # info[i][task][2].task_name

====
